---- MODULE Spec2Model ----
(***************************************************************************)
(* Model of the tree-walking evaluator of src/interpreter.rs: the value    *)
(* model (ValueType and its Display), Interpreter::interpret_expr,         *)
(* Interpreter::call_fn and the top-level loop Interpreter::run.           *)
(*                                                                         *)
(* A reduction either returns a value or panics.  A panic ends the         *)
(* process, so the result of a reduction carries the environment and the   *)
(* text written to standard output at the moment it returned or panicked.  *)
(***************************************************************************)
EXTENDS Integers, Sequences, FiniteSets

(***************************************************************************)
(* Bounds of the model.  ValueType::Int holds an i64; the model keeps the  *)
(* two's-complement arithmetic and narrows the width to IntBits bits.      *)
(***************************************************************************)
IntBits == 8
MaxLen == 2
MaxAssignLen == 3

Modulus == 2 ^ IntBits
MinInt == -(2 ^ (IntBits - 1))
MaxInt == (2 ^ (IntBits - 1)) - 1

VARIABLES exprs, globals, out, pc, fault, result, overflow_checks

vars == <<exprs, globals, out, pc, fault, result, overflow_checks>>

(***************************************************************************)
(* Fault kinds: the panics of the evaluator.                               *)
(***************************************************************************)
NoFault == "none"
TypeMismatch == "TypeMismatch"
UnboundName == "UnboundName"
UnknownCallee == "UnknownCallee"
ArityFault == "ArityFault"
ArithmeticFault == "ArithmeticFault"
Overflow == "Overflow"

(***************************************************************************)
(* ValueType.  Every value is a record with the same fields, so that any   *)
(* two values can be compared.                                             *)
(***************************************************************************)
ValInt(i) == [t |-> "Int", i |-> i, s |-> "", b |-> FALSE]
ValString(s) == [t |-> "String", i |-> 0, s |-> s, b |-> FALSE]
ValBool(b) == [t |-> "Bool", i |-> 0, s |-> "", b |-> b]
ValFn(name, builtin) == [t |-> "Fn", i |-> 0, s |-> name, b |-> builtin]
Nothing == [t |-> "Nothing", i |-> 0, s |-> "", b |-> FALSE]
\* what the caller of a reduction that panicked holds: no value at all
NoValue == [t |-> "NoValue", i |-> 0, s |-> "", b |-> FALSE]

(***************************************************************************)
(* Token and Expr (built by the lexer and the parser, read-only here).     *)
(***************************************************************************)
Num(i) == [tk |-> "Num", i |-> i, s |-> "", b |-> FALSE]
StringTok(s) == [tk |-> "String", i |-> 0, s |-> s, b |-> FALSE]
BoolTok(b) == [tk |-> "Bool", i |-> 0, s |-> "", b |-> b]
Identifier(x) == [tk |-> "Identifier", i |-> 0, s |-> x, b |-> FALSE]
OtherTok == [tk |-> "Other", i |-> 0, s |-> "", b |-> FALSE]

Token(x) == [kind |-> "Token", tok |-> x]
BinaryExpr(op, lhs, rhs) == [kind |-> "BinaryExpr", op |-> op, lhs |-> lhs, rhs |-> rhs]
FnCall(name, args) == [kind |-> "FnCall", name |-> name, args |-> args]

(***************************************************************************)
(* Display for ValueType: decimal digits for Int, the raw content for      *)
(* String, true/false for Bool, nothing for Fn, "Nothing" for Nothing.     *)
(***************************************************************************)
Digits == <<"0", "1", "2", "3", "4", "5", "6", "7", "8", "9">>

RECURSIVE DecNat(_)
DecNat(n) ==
    IF n < 10 THEN Digits[n + 1]
    ELSE DecNat(n \div 10) \o Digits[(n % 10) + 1]

DisplayInt(i) == IF i < 0 THEN "-" \o DecNat(-i) ELSE DecNat(i)

Display(v) ==
    CASE v.t = "Int" -> DisplayInt(v.i)
      [] v.t = "String" -> v.s
      [] v.t = "Bool" -> (IF v.b THEN "true" ELSE "false")
      [] v.t = "Fn" -> ""
      [] v.t = "Nothing" -> "Nothing"

(***************************************************************************)
(* The outcome of a reduction: the value returned (NoValue after a panic), *)
(* the environment and the output as the reduction left them, the fault.   *)
(***************************************************************************)
Ret(val, st) == [val |-> val, globals |-> st.globals, out |-> st.out, fault |-> NoFault]
Panic(kind, st) == [val |-> NoValue, globals |-> st.globals, out |-> st.out, fault |-> kind]
StateOf(r) == [globals |-> r.globals, out |-> r.out]

\* HashMap::insert
Insert(g, k, v) == [n \in (DOMAIN g) \cup {k} |-> IF n = k THEN v ELSE g[n]]

\* Display of the left-hand side of an assignment (a bare identifier)
ExprToString(lhs) == lhs.tok.s

(***************************************************************************)
(* i64 arithmetic.  +, - and * panic on overflow when the build checks     *)
(* overflow and wrap otherwise; n is the mathematical result.              *)
(***************************************************************************)
Wrap(n) == ((n - MinInt) % Modulus) + MinInt

InRange(n) == MinInt <= n /\ n <= MaxInt

IntArith(n, st) ==
    IF InRange(n) THEN Ret(ValInt(n), st)
    ELSE IF overflow_checks THEN Panic(Overflow, st)
    ELSE Ret(ValInt(Wrap(n)), st)

\* i64 `/`: the quotient truncated toward zero
Abs(n) == IF n < 0 THEN -n ELSE n

\* the quotient rounded toward minus infinity
TruncDiv_Floor(a, b) == a \div b

TruncDiv(a, b) ==
    IF (a < 0) = (b < 0) THEN Abs(a) \div Abs(b) ELSE -(Abs(a) \div Abs(b))

IntDiv(a, b, st) ==
    IF b = 0 THEN Panic(ArithmeticFault, st)
    ELSE IF a = MinInt /\ b = -1 THEN Panic(Overflow, st)
    ELSE Ret(ValInt(TruncDiv(a, b)), st)

(***************************************************************************)
(* The match on (left_side, right_side) of each binary operator.           *)
(***************************************************************************)
Add(left, right, st) ==
    IF left.t = "Int" /\ right.t = "Int" THEN IntArith(left.i + right.i, st)
    ELSE IF left.t = "String" /\ right.t = "String" THEN Ret(ValString(left.s \o right.s), st)
    ELSE Panic(TypeMismatch, st)

\* Sub with its operands exchanged
Sub_Swapped(left, right, st) ==
    IF left.t = "Int" /\ right.t = "Int" THEN IntArith(right.i - left.i, st)
    ELSE Panic(TypeMismatch, st)

Sub(left, right, st) ==
    IF left.t = "Int" /\ right.t = "Int" THEN IntArith(left.i - right.i, st)
    ELSE Panic(TypeMismatch, st)

Mul(left, right, st) ==
    IF left.t = "Int" /\ right.t = "Int" THEN IntArith(left.i * right.i, st)
    ELSE Panic(TypeMismatch, st)

Div(left, right, st) ==
    IF left.t = "Int" /\ right.t = "Int" THEN IntDiv(left.i, right.i, st)
    ELSE Panic(TypeMismatch, st)

\* Eq through the derived PartialEq of ValueType, for any two values of one variant
Eq_Derived(left, right, st) ==
    IF left.t = right.t THEN Ret(ValBool(left = right), st)
    ELSE Panic(TypeMismatch, st)

Eq(left, right, st) ==
    IF left.t = "Int" /\ right.t = "Int" THEN Ret(ValBool(left.i = right.i), st)
    ELSE IF left.t = "String" /\ right.t = "String" THEN Ret(ValBool(left.s = right.s), st)
    ELSE IF left.t = "Bool" /\ right.t = "Bool" THEN Ret(ValBool(left.b = right.b), st)
    ELSE Panic(TypeMismatch, st)

Neq(left, right, st) ==
    IF left.t = "Int" /\ right.t = "Int" THEN Ret(ValBool(left.i # right.i), st)
    ELSE IF left.t = "String" /\ right.t = "String" THEN Ret(ValBool(left.s # right.s), st)
    ELSE IF left.t = "Bool" /\ right.t = "Bool" THEN Ret(ValBool(left.b # right.b), st)
    ELSE Panic(TypeMismatch, st)

BinOp(op, left, right, st) ==
    CASE op = "Add" -> Add(left, right, st)
      [] op = "Sub" -> Sub(left, right, st)
      [] op = "Mul" -> Mul(left, right, st)
      [] op = "Div" -> Div(left, right, st)
      [] op = "Eq" -> Eq(left, right, st)
      [] op = "Neq" -> Neq(left, right, st)

(***************************************************************************)
(* Expr::Token                                                             *)
(***************************************************************************)
\* a token of any other kind yields a function descriptor
TokenVal_Descriptor(x, st) ==
    CASE x.tk = "Num" -> Ret(ValInt(x.i), st)
      [] x.tk = "String" -> Ret(ValString(x.s), st)
      [] x.tk = "Bool" -> Ret(ValBool(x.b), st)
      [] x.tk = "Identifier" ->
            IF x.s \in DOMAIN st.globals THEN Ret(st.globals[x.s], st)
            ELSE Panic(UnboundName, st)
      [] OTHER -> Ret(ValFn(x.s, TRUE), st)

TokenVal(x, st) ==
    CASE x.tk = "Num" -> Ret(ValInt(x.i), st)
      [] x.tk = "String" -> Ret(ValString(x.s), st)
      [] x.tk = "Bool" -> Ret(ValBool(x.b), st)
      [] x.tk = "Identifier" ->
            IF x.s \in DOMAIN st.globals THEN Ret(st.globals[x.s], st)
            ELSE Panic(UnboundName, st)
      [] OTHER -> Ret(Nothing, st)

(***************************************************************************)
(* The print built-in.  With more than one argument the loop writes every  *)
(* argument, followed by ", " unless the argument EQUALS the last one.     *)
(***************************************************************************)
RECURSIVE print_loop(_, _, _)
print_loop(args, i, text) ==
    IF i > Len(args) THEN text
    ELSE IF args[i] = args[Len(args)]
         THEN print_loop(args, i + 1, text \o Display(args[i]))
         ELSE print_loop(args, i + 1, text \o Display(args[i]) \o ", ")

\* print that accepts an empty argument list and writes an empty line
print_EmptyLine(args, st) ==
    IF Len(args) > 1
    THEN Ret(Nothing, [st EXCEPT !.out = print_loop(args, 1, st.out) \o "\n"])
    ELSE IF Len(args) = 0 THEN Ret(Nothing, [st EXCEPT !.out = st.out \o "\n"])
    ELSE Ret(Nothing, [st EXCEPT !.out = st.out \o Display(args[1]) \o "\n"])

print(args, st) ==
    IF Len(args) > 1
    THEN Ret(Nothing, [st EXCEPT !.out = print_loop(args, 1, st.out) \o "\n"])
    ELSE IF Len(args) = 0 THEN Panic(ArityFault, st)
    ELSE Ret(Nothing, [st EXCEPT !.out = st.out \o Display(args[1]) \o "\n"])

\* call_fn that looks the name up in the environment before the built-ins
call_fn_Environment(name, args, st) ==
    IF name \in DOMAIN st.globals THEN Ret(st.globals[name], st)
    ELSE IF name = "print" THEN print(args, st)
    ELSE Panic(UnknownCallee, st)

call_fn(name, args, st) ==
    IF name = "print" THEN print(args, st)
    ELSE Panic(UnknownCallee, st)

(***************************************************************************)
(* Expr::BinaryExpr with Operator::SetVal, after the right side reduced.   *)
(***************************************************************************)
\* SetVal that keeps an existing binding (entry().or_insert())
SetVal_KeepFirst(lhs, r) ==
    IF ExprToString(lhs) \in DOMAIN r.globals THEN Ret(Nothing, StateOf(r))
    ELSE Ret(Nothing, [globals |-> Insert(r.globals, ExprToString(lhs), r.val), out |-> r.out])

SetVal(lhs, r) ==
    Ret(Nothing, [globals |-> Insert(r.globals, ExprToString(lhs), r.val), out |-> r.out])

(***************************************************************************)
(* interpret_expr                                                          *)
(***************************************************************************)
RECURSIVE interpret_expr(_, _)
RECURSIVE interpret_args(_, _, _)

\* the two operands of a binary operator, left then right
\* the right operand reduced before the left one
Operands_RightFirst(lhs, rhs, st) ==
    LET r == interpret_expr(rhs, st) IN
    IF r.fault # NoFault THEN [left |-> NoValue, right |-> NoValue, r |-> r]
    ELSE LET l == interpret_expr(lhs, StateOf(r)) IN
         [left |-> l.val, right |-> r.val, r |-> l]

Operands(lhs, rhs, st) ==
    LET l == interpret_expr(lhs, st) IN
    IF l.fault # NoFault THEN [left |-> NoValue, right |-> NoValue, r |-> l]
    ELSE LET r == interpret_expr(rhs, StateOf(l)) IN
         [left |-> l.val, right |-> r.val, r |-> r]

\* the loop over the arguments of a call
interpret_args(args, args_vec, st) ==
    IF args = <<>> THEN [vals |-> args_vec, r |-> Ret(Nothing, st)]
    ELSE LET a == interpret_expr(Head(args), st) IN
         IF a.fault # NoFault THEN [vals |-> args_vec, r |-> a]
         ELSE interpret_args(Tail(args), Append(args_vec, a.val), StateOf(a))

interpret_expr(expr, st) ==
    IF expr.kind = "BinaryExpr" THEN
        IF expr.op = "SetVal" THEN
            LET right_side == interpret_expr(expr.rhs, st) IN
            IF right_side.fault # NoFault THEN right_side
            ELSE SetVal(expr.lhs, right_side)
        ELSE
            LET o == Operands(expr.lhs, expr.rhs, st) IN
            IF o.r.fault # NoFault THEN o.r
            ELSE BinOp(expr.op, o.left, o.right, StateOf(o.r))
    ELSE IF expr.kind = "Token" THEN TokenVal(expr.tok, st)
    ELSE
        LET a == interpret_args(expr.args, <<>>, st) IN
        IF a.r.fault # NoFault THEN a.r
        ELSE call_fn(expr.name, a.vals, StateOf(a.r))

(***************************************************************************)
(* Programs                                                                *)
(***************************************************************************)
Assign(x, e) == BinaryExpr("SetVal", Token(Identifier(x)), e)
Var(x) == Token(Identifier(x))
Lit(i) == Token(Num(i))
Str(s) == Token(StringTok(s))

TopExprs ==
    { Assign("x", Lit(1)), Assign("x", Lit(2)), Assign("y", Var("x")),
      Assign("x", BinaryExpr("Add", Var("x"), Lit(1))),
      Assign("y", Str("a")), Assign("print", Lit(1)), Assign("foo", Lit(2)),
      Assign("x", Var("y")), Assign("x", FnCall("foo", <<>>)),
      Assign("y", BinaryExpr("Div", Lit(1), Lit(0))),
      Var("x"), Var("y"),
      FnCall("print", <<>>), FnCall("print", <<Lit(1)>>),
      FnCall("print", <<Var("x")>>), FnCall("print", <<Var("y")>>),
      FnCall("print", <<Lit(1), Lit(2)>>),
      FnCall("print", <<Lit(1), Lit(2), Lit(1)>>),
      FnCall("print", <<Lit(1), Lit(2), Lit(3)>>),
      FnCall("print", <<Str("a"), Str("b")>>),
      FnCall("print", <<Var("x"), Var("y")>>),
      FnCall("print", <<Token(OtherTok), Token(BoolTok(TRUE))>>),
      FnCall("print", <<Assign("x", Lit(1)), Var("x")>>),
      FnCall("print", <<Assign("y", Lit(2)), Var("y")>>),
      FnCall("print", <<FnCall("print", <<Lit(1)>>), Var("y")>>),
      FnCall("print", <<Var("y"), FnCall("print", <<Lit(1)>>)>>),
      FnCall("print", <<FnCall("foo", <<>>), Var("y")>>),
      FnCall("foo", <<>>), FnCall("foo", <<Lit(1)>>), FnCall("foo", <<Var("y")>>),
      FnCall("foo", <<Assign("x", Lit(2))>>),
      FnCall("x", <<Var("x")>>),
      BinaryExpr("Add", Var("y"), FnCall("foo", <<>>)),
      BinaryExpr("Eq", FnCall("foo", <<>>), Var("y")),
      BinaryExpr("Sub", Assign("y", Lit(1)), Var("y")),
      BinaryExpr("Add", Var("x"), Str("a")),
      BinaryExpr("Add", Var("y"), Assign("x", Lit(2))),
      Assign("x", Token(OtherTok)) }

AssignExprs ==
    { Assign("x", Lit(5)), Assign("y", BinaryExpr("Add", Var("x"), Lit(3))),
      FnCall("print", <<Var("y")>>), Assign("x", Lit(1)),
      Assign("x", BinaryExpr("Add", Var("x"), Lit(1))),
      FnCall("print", <<Var("x")>>), Assign("y", Var("x")), Var("x") }

ArithInts == {MinInt, MinInt + 1, -7, -2, -1, 0, 1, 2, 7, MaxInt - 1, MaxInt}

ArithLeaves ==
    {Lit(i) : i \in ArithInts} \cup {Str(""), Str("a"), Str("b")}
        \cup {Token(BoolTok(TRUE)), Token(BoolTok(FALSE)), Token(OtherTok)}

ArithOps == {"Add", "Sub", "Mul", "Div", "Eq", "Neq"}

SeqsUpTo(S, n) == UNION {[1..k -> S] : k \in 1..n}

(***************************************************************************)
(* Interpreter::new: the program, and an empty environment.                *)
(***************************************************************************)
new(program) ==
    /\ exprs = program
    /\ globals = <<>>
    /\ out = ""
    /\ pc = 1
    /\ fault = NoFault
    /\ result = Nothing
    /\ overflow_checks \in BOOLEAN

Init == \E program \in SeqsUpTo(TopExprs, MaxLen) : new(program)

InitAssign == \E program \in SeqsUpTo(AssignExprs, MaxAssignLen) : new(program)

InitArith ==
    \E op \in ArithOps, l \in ArithLeaves, r \in ArithLeaves :
        new(<<BinaryExpr(op, l, r)>>)

(***************************************************************************)
(* Interpreter::run: one iteration of the loop over the top-level          *)
(* expressions.  A panic ends the loop for good.                           *)
(***************************************************************************)
\* a loop that goes on to the next expression after a panic
run_Continues ==
    /\ pc <= Len(exprs)
    /\ LET r == interpret_expr(exprs[pc], [globals |-> globals, out |-> out]) IN
         /\ globals' = r.globals
         /\ out' = r.out
         /\ fault' = r.fault
         /\ result' = r.val
         /\ pc' = pc + 1
    /\ UNCHANGED <<exprs, overflow_checks>>

run ==
    /\ fault = NoFault
    /\ pc <= Len(exprs)
    /\ LET r == interpret_expr(exprs[pc], [globals |-> globals, out |-> out]) IN
         /\ globals' = r.globals
         /\ out' = r.out
         /\ fault' = r.fault
         /\ result' = r.val
         /\ pc' = IF r.fault = NoFault THEN pc + 1 ELSE pc
    /\ UNCHANGED <<exprs, overflow_checks>>

Next == run

Spec == Init /\ [][Next]_vars
SpecAssign == InitAssign /\ [][Next]_vars
SpecArith == InitArith /\ [][Next]_vars

(***************************************************************************)
(* Vocabulary of the properties.                                           *)
(***************************************************************************)
\* the run is over: every top-level expression was reduced, or one panicked
Done == fault # NoFault \/ pc > Len(exprs)

\* the value a literal token stands for
LitValue(e) ==
    CASE e.tok.tk = "Num" -> ValInt(e.tok.i)
      [] e.tok.tk = "String" -> ValString(e.tok.s)
      [] e.tok.tk = "Bool" -> ValBool(e.tok.b)
      [] OTHER -> Nothing

IsBinary(e, ops) == e.kind = "BinaryExpr" /\ e.op \in ops
IsNum(e) == e.kind = "Token" /\ e.tok.tk = "Num"
IsStr(e) == e.kind = "Token" /\ e.tok.tk = "String"

\* the mathematical result of an arithmetic operator
Exact(op, a, b) ==
    CASE op = "Add" -> a + b
      [] op = "Sub" -> a - b
      [] op = "Mul" -> a * b

\* q is the quotient of a by b truncated toward zero
IsTruncQuot(q, a, b) ==
    LET rem == a - (q * b) IN
    /\ Abs(rem) < Abs(b)
    /\ rem = 0 \/ ((rem < 0) = (a < 0))

SampleValues ==
    { ValInt(MinInt), ValInt(0), ValInt(1), ValString(""), ValString("a"),
      ValBool(TRUE), ValBool(FALSE), Nothing,
      ValFn("print", TRUE), ValFn("f", FALSE) }

EmptyState == [globals |-> <<>>, out |-> ""]

(***************************************************************************)
(* C4 as stated: for ALL a and b of the integer range, a + b, a - b and    *)
(* a * b reduce to the Integer holding the mathematical sum, difference    *)
(* and product, and s + t reduces to the concatenation of the two texts.   *)
(***************************************************************************)
C4_ExactForAllIntegers ==
    (Done /\ Len(exprs) = 1 /\ IsBinary(exprs[1], {"Add", "Sub", "Mul"})) =>
        LET e == exprs[1] IN
        /\ (IsNum(e.lhs) /\ IsNum(e.rhs)) =>
              /\ fault = NoFault
              /\ result = ValInt(Exact(e.op, e.lhs.tok.i, e.rhs.tok.i))
        /\ (e.op = "Add" /\ IsStr(e.lhs) /\ IsStr(e.rhs)) =>
              /\ fault = NoFault
              /\ result = ValString(e.lhs.tok.s \o e.rhs.tok.s)

(***************************************************************************)
(* C4 amended: a + b, a - b and a * b reduce to the Integer holding the    *)
(* mathematical result whenever that result lies in the integer range;     *)
(* when it does not, a build with overflow checks panics and a build       *)
(* without them yields the result wrapped into the range.  s + t reduces   *)
(* to the concatenation of the two texts.                                  *)
(***************************************************************************)
C4_ExactWithinRange ==
    (Done /\ Len(exprs) = 1 /\ IsBinary(exprs[1], {"Add", "Sub", "Mul"})) =>
        LET e == exprs[1] IN
        /\ (IsNum(e.lhs) /\ IsNum(e.rhs)) =>
              LET n == Exact(e.op, e.lhs.tok.i, e.rhs.tok.i) IN
              /\ InRange(n) => (fault = NoFault /\ result = ValInt(n))
              /\ (~InRange(n) /\ overflow_checks) =>
                    (fault = Overflow /\ result = NoValue)
              /\ (~InRange(n) /\ ~overflow_checks) =>
                    /\ fault = NoFault
                    /\ result.t = "Int"
                    /\ InRange(result.i)
                    /\ (result.i - n) % Modulus = 0
        /\ (e.op = "Add" /\ IsStr(e.lhs) /\ IsStr(e.rhs)) =>
              /\ fault = NoFault
              /\ result = ValString(e.lhs.tok.s \o e.rhs.tok.s)

C4_Witness ==
    /\ pc = 2
    /\ exprs = <<BinaryExpr("Sub", Lit(MinInt + 1), Lit(1))>>
    /\ result = ValInt(MinInt)

(***************************************************************************)
(* C5 as stated: for ALL a and b with b # 0, a = MinInt with b = -1        *)
(* included, a / b reduces to the Integer holding the quotient truncated   *)
(* toward zero; a / 0 yields no value and is an ArithmeticFault; a         *)
(* division with an operand that is not an Integer is a type error.        *)
(***************************************************************************)
C5_TruncatesForAllIntegers ==
    (Done /\ Len(exprs) = 1 /\ IsBinary(exprs[1], {"Div"})) =>
        LET e == exprs[1] IN
        /\ (IsNum(e.lhs) /\ IsNum(e.rhs) /\ e.rhs.tok.i # 0) =>
              /\ fault = NoFault
              /\ result.t = "Int"
              /\ IsTruncQuot(result.i, e.lhs.tok.i, e.rhs.tok.i)
        /\ (IsNum(e.lhs) /\ IsNum(e.rhs) /\ e.rhs.tok.i = 0) =>
              (fault = ArithmeticFault /\ result = NoValue)
        /\ ~(IsNum(e.lhs) /\ IsNum(e.rhs)) =>
              (fault = TypeMismatch /\ result = NoValue)

(***************************************************************************)
(* C5 amended: for all a and b with b # 0, except a = MinInt with b = -1,  *)
(* a / b reduces to the Integer holding the quotient truncated toward      *)
(* zero; MinInt / -1 yields no value and is a fatal overflow panic in      *)
(* every build; a / 0 yields no value and is an ArithmeticFault; a         *)
(* division with an operand that is not an Integer is a type error.        *)
(***************************************************************************)
C5_TruncatesUnlessOverflow ==
    (Done /\ Len(exprs) = 1 /\ IsBinary(exprs[1], {"Div"})) =>
        LET e == exprs[1] IN
        /\ (IsNum(e.lhs) /\ IsNum(e.rhs) /\ e.rhs.tok.i # 0
                /\ ~(e.lhs.tok.i = MinInt /\ e.rhs.tok.i = -1)) =>
              /\ fault = NoFault
              /\ result.t = "Int"
              /\ IsTruncQuot(result.i, e.lhs.tok.i, e.rhs.tok.i)
        /\ (IsNum(e.lhs) /\ IsNum(e.rhs)
                /\ e.lhs.tok.i = MinInt /\ e.rhs.tok.i = -1) =>
              (fault = Overflow /\ result = NoValue)
        /\ (IsNum(e.lhs) /\ IsNum(e.rhs) /\ e.rhs.tok.i = 0) =>
              (fault = ArithmeticFault /\ result = NoValue)
        /\ ~(IsNum(e.lhs) /\ IsNum(e.rhs)) =>
              (fault = TypeMismatch /\ result = NoValue)

C5_Witness ==
    /\ pc = 2
    /\ exprs = <<BinaryExpr("Div", Lit(-7), Lit(2))>>
    /\ result = ValInt(-3)

(***************************************************************************)
(* C6: equal and not-equal on two operands of the same variant among       *)
(* Integer, Text and Boolean yield Boolean(the values are equal) and its   *)
(* negation, so that equality is reflexive and symmetric; every other      *)
(* pairing (different variants, a Unit or a Function operand, Unit with    *)
(* Unit) yields no value and is a type error.                              *)
(***************************************************************************)
Comparable(a, b) == a.t = b.t /\ a.t \in {"Int", "String", "Bool"}

C6_Equality ==
    /\ (Done /\ Len(exprs) = 1 /\ IsBinary(exprs[1], {"Eq", "Neq"})) =>
          LET e == exprs[1]
              a == LitValue(e.lhs)
              b == LitValue(e.rhs)
          IN  IF Comparable(a, b)
              THEN /\ fault = NoFault
                   /\ result = ValBool(IF e.op = "Eq" THEN a = b ELSE a # b)
              ELSE fault = TypeMismatch /\ result = NoValue
    /\ Done => \A a \in SampleValues, b \in SampleValues :
          /\ Eq(a, b, EmptyState) = Eq(b, a, EmptyState)
          /\ Neq(a, b, EmptyState) = Neq(b, a, EmptyState)
          /\ IF Comparable(a, b)
             THEN /\ Eq(a, b, EmptyState).val = ValBool(a = b)
                  /\ Neq(a, b, EmptyState).val = ValBool(a # b)
             ELSE /\ Eq(a, b, EmptyState).fault = TypeMismatch
                  /\ Neq(a, b, EmptyState).fault = TypeMismatch

C6_Witness ==
    /\ pc = 2
    /\ exprs = <<BinaryExpr("Eq", Str("a"), Str("a"))>>
    /\ result = ValBool(TRUE)

(***************************************************************************)
(* Vocabulary of the properties about one step of run.                     *)
(***************************************************************************)
\* run is about to reduce the top-level expression Cur
Stepping == fault = NoFault /\ pc <= Len(exprs)
Cur == exprs[pc]

IsTok(e) == e.kind = "Token"
IsVar(e) == e.kind = "Token" /\ e.tok.tk = "Identifier"
IsLit(e) == e.kind = "Token" /\ e.tok.tk # "Identifier"
IsAssign(e) == e.kind = "BinaryExpr" /\ e.op = "SetVal"
IsCall(e) == e.kind = "FnCall"
IsPrint(e) == e.kind = "FnCall" /\ e.name = "print"

\* a token that reduces without a fault in the environment g, and its value
Bound(e, g) == IsTok(e) /\ (IsVar(e) => e.tok.s \in DOMAIN g)
ArgValue(e, g) == IF IsVar(e) THEN g[e.tok.s] ELSE LitValue(e)
AllBound(args, g) == \A i \in DOMAIN args : Bound(args[i], g)

\* the names an expression assigns to, and whether it calls print
RECURSIVE AssignedNames(_)
AssignedNames(e) ==
    IF e.kind = "Token" THEN {}
    ELSE IF e.kind = "BinaryExpr"
    THEN (IF e.op = "SetVal" THEN {e.lhs.tok.s} ELSE AssignedNames(e.lhs))
            \cup AssignedNames(e.rhs)
    ELSE UNION {AssignedNames(e.args[i]) : i \in DOMAIN e.args}

RECURSIVE CallsPrint(_)
CallsPrint(e) ==
    IF e.kind = "Token" THEN FALSE
    ELSE IF e.kind = "BinaryExpr"
    THEN (IF e.op = "SetVal" THEN FALSE ELSE CallsPrint(e.lhs)) \/ CallsPrint(e.rhs)
    ELSE e.name = "print" \/ \E i \in DOMAIN e.args : CallsPrint(e.args[i])

\* the binding of n is the same before and after the step
SameBinding(n) ==
    /\ (n \in DOMAIN globals') = (n \in DOMAIN globals)
    /\ n \in DOMAIN globals => globals'[n] = globals[n]

OtherBindingsKept(e) ==
    /\ DOMAIN globals' \subseteq (DOMAIN globals) \cup AssignedNames(e)
    /\ \A n \in (DOMAIN globals) \ AssignedNames(e) : SameBinding(n)

IsPrefix(s, t) == Len(s) <= Len(t) /\ SubSeq(t, 1, Len(s)) = s

RECURSIVE Join(_)
Join(texts) ==
    IF Len(texts) = 0 THEN ""
    ELSE IF Len(texts) = 1 THEN texts[1]
    ELSE texts[1] \o ", " \o Join(Tail(texts))

(***************************************************************************)
(* C1: print(a1, ..., an) with n >= 1 writes the renderings of a1..an      *)
(* joined with ", " and one newline, whatever the values of the arguments  *)
(* (print(1, 2, 1) included), and yields Unit.                             *)
(***************************************************************************)
C1_Step ==
    (Stepping /\ IsPrint(Cur) /\ Len(Cur.args) >= 1 /\ AllBound(Cur.args, globals)) =>
        /\ fault' = NoFault
        /\ result' = Nothing
        /\ out' = out \o Join([i \in DOMAIN Cur.args |->
                                  Display(ArgValue(Cur.args[i], globals))]) \o "\n"

C1_PrintJoinsEveryArgument == [][C1_Step]_vars

(***************************************************************************)
(* C2: after any sequence of assignments x := e that did not fault, the    *)
(* environment maps every name to the value of the most recent assignment  *)
(* to it and binds no name that was never assigned; a lookup of x yields   *)
(* that value; an assignment leaves the other bindings alone and yields    *)
(* Unit; [x := 5; y := x + 3; print(y)] ends with x = 5, y = 8 and the     *)
(* output "8\n".                                                           *)
(***************************************************************************)
Scenario ==
    << Assign("x", Lit(5)), Assign("y", BinaryExpr("Add", Var("x"), Lit(3))),
       FnCall("print", <<Var("y")>>) >>

Reduced == 1 .. (IF fault # NoFault THEN pc ELSE pc - 1)

\* the last top-level assignment to n among the expressions reduced so far
LastAssign(n) ==
    LET S == {i \in 1 .. (pc - 1) : IsAssign(exprs[i]) /\ exprs[i].lhs.tok.s = n}
    IN  CHOOSE i \in S : \A j \in S : j <= i

C2_Step ==
    Stepping =>
        /\ (IsAssign(Cur) /\ fault' = NoFault) =>
              LET x == Cur.lhs.tok.s
                  rhs == Cur.rhs
              IN  /\ result' = Nothing
                  /\ out' = out
                  /\ DOMAIN globals' = (DOMAIN globals) \cup {x}
                  /\ \A n \in (DOMAIN globals) \ {x} : globals'[n] = globals[n]
                  /\ IsLit(rhs) => globals'[x] = LitValue(rhs)
                  /\ IsVar(rhs) => globals'[x] = globals[rhs.tok.s]
                  /\ (IsBinary(rhs, {"Add"}) /\ IsVar(rhs.lhs) /\ IsNum(rhs.rhs)) =>
                        globals'[x] = ValInt(globals[rhs.lhs.tok.s].i + rhs.rhs.tok.i)
        /\ (IsVar(Cur) /\ Cur.tok.s \in DOMAIN globals) =>
              /\ fault' = NoFault
              /\ result' = globals[Cur.tok.s]
              /\ globals' = globals

C2_State ==
    /\ DOMAIN globals \subseteq UNION {AssignedNames(exprs[i]) : i \in Reduced}
    /\ \A n \in DOMAIN globals :
          IsLit(exprs[LastAssign(n)].rhs) =>
              globals[n] = LitValue(exprs[LastAssign(n)].rhs)
    /\ (exprs = Scenario /\ Done) =>
          /\ fault = NoFault
          /\ globals = [n \in {"x", "y"} |-> IF n = "x" THEN ValInt(5) ELSE ValInt(8)]
          /\ out = "8\n"

C2_AssignmentThenLookup == [][C2_Step]_vars /\ []C2_State

C2_Witness ==
    /\ exprs = Scenario
    /\ pc = 4
    /\ globals["y"] = ValInt(8)

(***************************************************************************)
(* C3: a fault ends the run at once.  No step follows a fault; the step    *)
(* that faults leaves pc on the faulting expression, keeps the output      *)
(* written so far and changes no binding but those of names assigned       *)
(* inside the faulting expression; the effects of the sub-expressions      *)
(* reduced before the faulting one stay; an assignment whose right side    *)
(* faults does not bind its left side.                                     *)
(***************************************************************************)
C3_Step ==
    /\ fault = NoFault
    /\ fault' # NoFault =>
          /\ pc' = pc
          /\ result' = NoValue
          /\ IsPrefix(out, out')
          /\ OtherBindingsKept(Cur)
          /\ ~CallsPrint(Cur) => out' = out
          /\ (IsAssign(Cur) /\ Cur.lhs.tok.s \notin AssignedNames(Cur.rhs)) =>
                SameBinding(Cur.lhs.tok.s)
          \* the first argument was reduced, the second or the dispatch faulted
          /\ (IsCall(Cur) /\ Len(Cur.args) >= 1 /\ IsAssign(Cur.args[1])
                  /\ IsLit(Cur.args[1].rhs)
                  /\ \A i \in 2 .. Len(Cur.args) :
                        Cur.args[1].lhs.tok.s \notin AssignedNames(Cur.args[i])) =>
                /\ Cur.args[1].lhs.tok.s \in DOMAIN globals'
                /\ globals'[Cur.args[1].lhs.tok.s] = LitValue(Cur.args[1].rhs)
          /\ (IsCall(Cur) /\ Len(Cur.args) >= 1 /\ IsPrint(Cur.args[1])
                  /\ Len(Cur.args[1].args) = 1 /\ IsLit(Cur.args[1].args[1])) =>
                IsPrefix(out \o Display(LitValue(Cur.args[1].args[1])) \o "\n", out')

C3_FaultEndsTheRun == [][C3_Step]_vars

C3_Witness ==
    /\ fault = UnknownCallee
    /\ pc = 1
    /\ Len(exprs) = 2
    /\ exprs[1] = FnCall("foo", <<Assign("x", Lit(2))>>)
    /\ IsAssign(exprs[2])
    /\ globals = [n \in {"x"} |-> ValInt(2)]

(***************************************************************************)
(* C7: a call never consults the environment for its name.  A call of a    *)
(* name other than print faults with UnknownCallee even when a variable    *)
(* of that name is bound; a call of print runs the built-in even when a    *)
(* variable named print is bound; a call changes no binding but those its  *)
(* argument expressions assign to.                                         *)
(***************************************************************************)
C7_Step ==
    (Stepping /\ IsCall(Cur)) =>
        /\ OtherBindingsKept(Cur)
        /\ (Cur.name # "print" /\ AllBound(Cur.args, globals)) =>
              /\ fault' = UnknownCallee
              /\ result' = NoValue
              /\ globals' = globals
              /\ out' = out
        /\ (Cur.name = "print" /\ Len(Cur.args) >= 1 /\ AllBound(Cur.args, globals)) =>
              /\ fault' = NoFault
              /\ result' = Nothing
              /\ globals' = globals
              /\ Len(out') > Len(out)
              /\ IsPrefix(out, out')

C7_CallsIgnoreTheEnvironment == [][C7_Step]_vars

C7_Witness ==
    /\ fault = UnknownCallee
    /\ pc = 2
    /\ exprs = <<Assign("foo", Lit(2)), FnCall("foo", <<Lit(1)>>)>>
    /\ globals = [n \in {"foo"} |-> ValInt(2)]

(***************************************************************************)
(* C8: sub-expressions are reduced left to right, before the enclosing     *)
(* operation acts.  The parts of the claim other than "nothing is written  *)
(* to output when an argument faults":                                     *)
(*  - a binding made in an earlier argument is seen by a later argument;   *)
(*  - when an argument faults the fault is that argument's, not the        *)
(*    dispatch's and not a later argument's;                               *)
(*  - the left operand of a binary operator is reduced before the right    *)
(*    one, and its fault is the one that ends the run.                     *)
(***************************************************************************)
UnknownCall(e, g) == IsCall(e) /\ e.name # "print" /\ AllBound(e.args, g)

C8_Order ==
    Stepping =>
        /\ (IsPrint(Cur) /\ Len(Cur.args) = 2 /\ IsAssign(Cur.args[1])
                /\ IsNum(Cur.args[1].rhs) /\ Cur.args[2] = Cur.args[1].lhs) =>
              /\ fault' = NoFault
              /\ globals'[Cur.args[1].lhs.tok.s] = LitValue(Cur.args[1].rhs)
              /\ out' = out \o "Nothing, " \o Display(LitValue(Cur.args[1].rhs)) \o "\n"
        /\ (IsCall(Cur) /\ (\A i \in DOMAIN Cur.args : IsTok(Cur.args[i]))
                /\ ~AllBound(Cur.args, globals)) =>
              /\ fault' = UnboundName
              /\ globals' = globals
              /\ out' = out
        /\ (IsCall(Cur) /\ Len(Cur.args) >= 1 /\ UnknownCall(Cur.args[1], globals)) =>
              /\ fault' = UnknownCallee
              /\ globals' = globals
              /\ out' = out
        /\ (IsBinary(Cur, ArithOps) /\ IsVar(Cur.lhs) /\ ~Bound(Cur.lhs, globals)) =>
              /\ fault' = UnboundName
              /\ globals' = globals
              /\ out' = out
        /\ (IsBinary(Cur, ArithOps) /\ UnknownCall(Cur.lhs, globals)) =>
              /\ fault' = UnknownCallee
              /\ globals' = globals
              /\ out' = out
        /\ (IsBinary(Cur, ArithOps) /\ IsAssign(Cur.lhs) /\ IsLit(Cur.lhs.rhs)
                /\ Cur.rhs = Cur.lhs.lhs) =>
              fault' = TypeMismatch

\* an argument of the call Cur faults
ArgumentFaults ==
    /\ Stepping
    /\ IsCall(Cur)
    /\ interpret_args(Cur.args, <<>>, [globals |-> globals, out |-> out]).r.fault # NoFault

(***************************************************************************)
(* C8 as stated: the order above, and when any argument of a call faults   *)
(* nothing is written to output.                                           *)
(***************************************************************************)
C8_AsStated_Step ==
    /\ C8_Order
    /\ ArgumentFaults => out' = out

C8_NothingWrittenWhenAnArgumentFaults == [][C8_AsStated_Step]_vars

(***************************************************************************)
(* C8 amended: the order above, and when any argument of a call faults the *)
(* call itself writes nothing: the output is unchanged unless an argument  *)
(* reduced before the faulting one itself called print, and then only      *)
(* what that nested call wrote is added (print(print(1), y) with y         *)
(* unbound writes "1\n" and faults with UnboundName).                      *)
(***************************************************************************)
C8_Amended_Step ==
    /\ C8_Order
    /\ ArgumentFaults =>
          /\ fault' # NoFault
          /\ IsPrefix(out, out')
          /\ (\A i \in DOMAIN Cur.args : ~CallsPrint(Cur.args[i])) => out' = out
          /\ (Len(Cur.args) = 2 /\ IsPrint(Cur.args[1]) /\ Len(Cur.args[1].args) = 1
                  /\ IsLit(Cur.args[1].args[1]) /\ IsVar(Cur.args[2])) =>
                /\ fault' = UnboundName
                /\ out' = out \o Display(LitValue(Cur.args[1].args[1])) \o "\n"

C8_LeftToRightBeforeDispatch == [][C8_Amended_Step]_vars

C8_Witness ==
    /\ fault = UnboundName
    /\ pc = 1
    /\ exprs = <<FnCall("print", <<FnCall("print", <<Lit(1)>>), Var("y")>>)>>
    /\ out = "1\n"

(***************************************************************************)
(* C9: print with no argument is an ArityFault: it writes nothing, yields  *)
(* no value, leaves the environment as it was and ends the run.            *)
(***************************************************************************)
C9_Step ==
    /\ fault # ArityFault
    /\ (Stepping /\ IsPrint(Cur) /\ Len(Cur.args) = 0) =>
          /\ fault' = ArityFault
          /\ result' = NoValue
          /\ out' = out
          /\ globals' = globals
          /\ pc' = pc

C9_PrintWithoutArguments == [][C9_Step]_vars

C9_Witness ==
    /\ fault = ArityFault
    /\ pc = 1
    /\ exprs = <<FnCall("print", <<>>), FnCall("print", <<Lit(1)>>)>>
    /\ out = ""

(***************************************************************************)
(* C10: from the empty environment no reduction yields a Function value    *)
(* and no binding holds one: every value produced or stored is an          *)
(* Integer, a Text, a Boolean or Unit.                                     *)
(***************************************************************************)
PlainVariants == {"Int", "String", "Bool", "Nothing"}

C10_NoFunctionValue ==
    /\ result.t \in PlainVariants \cup {"NoValue"}
    /\ result.t = "NoValue" <=> fault # NoFault
    /\ \A n \in DOMAIN globals : globals[n].t \in PlainVariants

C10_Witness ==
    /\ pc = 3
    /\ exprs = <<Assign("x", Token(OtherTok)), Var("x")>>
    /\ result = Nothing
    /\ globals = [n \in {"x"} |-> Nothing]

====
